---- MODULE Spec2Model ----
(***************************************************************************)
(* Model of the weekly-plan service of src/main.py: the oracle response    *)
(* parser (safe_parse_json), the week store (get_or_init_week, save_week), *)
(* the event log (log_event), the week expansion (weekly_plan_to_by_date)  *)
(* and the request handlers (home, ui_action, api_extract, api_weekly_get, *)
(* api_weekly_add_text).                                                   *)
(*                                                                         *)
(* A Python str is a sequence of one-character strings (the backtick is    *)
(* the element Backtick).  A Python/JSON value is a record                 *)
(* [k |-> kind, v |-> payload]:                                            *)
(*   "str"  payload = the characters                                       *)
(*   "num"  payload = the digits of a non-negative integer                 *)
(*   "lit"  payload = <<"null">>, <<"true">> or <<"false">>                *)
(*   "arr"  payload = the sequence of element values                       *)
(*   "obj"  payload = a function from keys (character sequences) to values *)
(* Texts are over an alphabet without backslash, sign, fraction and        *)
(* exponent characters, so JSON escapes and non-integer numbers are not    *)
(* part of the model.                                                      *)
(***************************************************************************)
EXTENDS Integers, Sequences, FiniteSets, TLC

\* ------------------------------------------------------------------------
\* Python str operations used by safe_parse_json
\* ------------------------------------------------------------------------

SetMin(S) == CHOOSE m \in S : \A n \in S : m <= n

SetMax(S) == CHOOSE m \in S : \A n \in S : n <= m

\* characters removed by str.strip() and skipped by the JSON decoder
Whitespace == {" ", "\t", "\n", "\r"}

\* text.strip(chars): drop the leading and trailing characters in chars
py_strip(t, chars) ==
  LET keep == {i \in 1..Len(t) : t[i] \notin chars}
  IN  IF keep = {} THEN << >> ELSE SubSeq(t, SetMin(keep), SetMax(keep))

\* text.startswith(p)
py_startswith(t, p) == Len(t) >= Len(p) /\ SubSeq(t, 1, Len(p)) = p

\* the 1-based positions at which pat occurs in t
Occurrences(t, pat) ==
  {i \in 1..(Len(t) - Len(pat) + 1) : SubSeq(t, i, i + Len(pat) - 1) = pat}

\* text.replace(pat, "", 1): remove the first occurrence of pat
py_replace_first(t, pat) ==
  LET occ == Occurrences(t, pat)
  IN  IF occ = {} THEN t
      ELSE LET i == SetMin(occ)
           IN  SubSeq(t, 1, i - 1) \o SubSeq(t, i + Len(pat), Len(t))

\* text.find(c): 0-based index of the first c, -1 when absent
py_find(t, c) ==
  LET occ == {i \in 1..Len(t) : t[i] = c}
  IN  IF occ = {} THEN -1 ELSE SetMin(occ) - 1

\* text.rfind(c): 0-based index of the last c, -1 when absent
py_rfind(t, c) ==
  LET occ == {i \in 1..Len(t) : t[i] = c}
  IN  IF occ = {} THEN -1 ELSE SetMax(occ) - 1

\* t[a:b] for 0 <= a <= b <= len(t)
py_slice(t, a, b) == SubSeq(t, a + 1, b)

\* ------------------------------------------------------------------------
\* Values
\* ------------------------------------------------------------------------

Str(s) == [k |-> "str", v |-> s]

Num(ds) == [k |-> "num", v |-> ds]

Lit(name) == [k |-> "lit", v |-> <<name>>]

Arr(xs) == [k |-> "arr", v |-> xs]

Obj(f) == [k |-> "obj", v |-> f]

EmptyList == Arr(<< >>)

EmptyDict == Obj(<< >>)

isinstance_dict(x) == x.k = "obj"

isinstance_list(x) == x.k = "arr"

\* Python truthiness: None, False, 0, "", [] and {} are falsy
Truthy(x) ==
  CASE x.k = "lit" -> x.v = <<"true">>
    [] x.k = "num" -> x.v # <<"0">>
    [] OTHER       -> x.v # << >>

\* d.get(key, default) on a dict d
dict_get(d, key, default) == IF key \in DOMAIN d.v THEN d.v[key] ELSE default

\* d[key] = val
dict_set(d, key, val) ==
  Obj([x \in (DOMAIN d.v) \cup {key} |-> IF x = key THEN val ELSE d.v[x]])

\* ------------------------------------------------------------------------
\* json.loads on the modelled alphabet
\* ------------------------------------------------------------------------

Digits == {"0", "1", "2", "3", "4", "5", "6", "7", "8", "9"}

Literals == {<<"n", "u", "l", "l">>, <<"t", "r", "u", "e">>,
             <<"f", "a", "l", "s", "e">>}

LitName(l) == IF l[1] = "n" THEN "null" ELSE IF l[1] = "t" THEN "true" ELSE "false"

\* a failed parse
NoParse == [ok |-> FALSE, val |-> EmptyList, pos |-> 0]

Parsed(val, pos) == [ok |-> TRUE, val |-> val, pos |-> pos]

\* first position >= i that is not whitespace (Len(s)+1 when there is none)
SkipWs(s, i) ==
  LET rest == {j \in i..Len(s) : s[j] \notin Whitespace}
  IN  IF rest = {} THEN (IF i > Len(s) + 1 THEN i ELSE Len(s) + 1)
      ELSE SetMin(rest)

\* a string starting at the quote s[i]: up to the next quote, no control
\* characters in between
ParseString(s, i) ==
  LET quotes == {j \in (i + 1)..Len(s) : s[j] = "\""}
  IN  IF quotes = {} THEN NoParse
      ELSE LET j == SetMin(quotes)
               body == SubSeq(s, i + 1, j - 1)
           IN  IF \E n \in 1..Len(body) : body[n] \in {"\n", "\t", "\r"}
               THEN NoParse
               ELSE Parsed(Str(body), j + 1)

\* an integer starting at the digit s[i]: "0", or a maximal run of digits
\* that does not start with "0"
ParseNumber(s, i) ==
  IF s[i] = "0" THEN Parsed(Num(<<"0">>), i + 1)
  ELSE LET stop == {j \in i..Len(s) : s[j] \notin Digits}
           e == IF stop = {} THEN Len(s) + 1 ELSE SetMin(stop)
       IN  Parsed(Num(SubSeq(s, i, e - 1)), e)

RECURSIVE ParseValue(_, _), ParseElems(_, _, _), ParseMembers(_, _, _)

\* scan_once: the value starting exactly at position i
ParseValue(s, i) ==
  IF i > Len(s) THEN NoParse
  ELSE CASE s[i] = "\"" -> ParseString(s, i)
         [] s[i] = "{" ->
              LET j == SkipWs(s, i + 1)
              IN  IF j <= Len(s) /\ s[j] = "}" THEN Parsed(EmptyDict, j + 1)
                  ELSE ParseMembers(s, j, << >>)
         [] s[i] = "[" ->
              LET j == SkipWs(s, i + 1)
              IN  IF j <= Len(s) /\ s[j] = "]" THEN Parsed(EmptyList, j + 1)
                  ELSE ParseElems(s, j, << >>)
         [] s[i] \in Digits -> ParseNumber(s, i)
         [] OTHER ->
              LET ls == {l \in Literals : py_startswith(SubSeq(s, i, Len(s)), l)}
              IN  IF ls = {} THEN NoParse
                  ELSE LET l == CHOOSE x \in ls : TRUE
                       IN  Parsed(Lit(LitName(l)), i + Len(l))

\* the elements of an array from position i (an element must start here),
\* acc the elements read so far
ParseElems(s, i, acc) ==
  LET e == ParseValue(s, i)
  IN  IF ~e.ok THEN NoParse
      ELSE LET j == SkipWs(s, e.pos)
           IN  IF j > Len(s) THEN NoParse
               ELSE IF s[j] = "]" THEN Parsed(Arr(Append(acc, e.val)), j + 1)
               ELSE IF s[j] = ","
                    THEN ParseElems(s, SkipWs(s, j + 1), Append(acc, e.val))
               ELSE NoParse

\* the members of an object from position i (a key must start here), acc the
\* dict built so far; a repeated key keeps its last value
ParseMembers(s, i, acc) ==
  IF i > Len(s) \/ s[i] # "\"" THEN NoParse
  ELSE LET key == ParseString(s, i)
       IN  IF ~key.ok THEN NoParse
           ELSE LET c == SkipWs(s, key.pos)
                IN  IF c > Len(s) \/ s[c] # ":" THEN NoParse
                    ELSE LET e == ParseValue(s, SkipWs(s, c + 1))
                         IN  IF ~e.ok THEN NoParse
                             ELSE LET j == SkipWs(s, e.pos)
                                      d == dict_set(Obj(acc), key.val.v, e.val).v
                                  IN  IF j > Len(s) THEN NoParse
                                      ELSE IF s[j] = "}" THEN Parsed(Obj(d), j + 1)
                                      ELSE IF s[j] = ","
                                           THEN ParseMembers(s, SkipWs(s, j + 1), d)
                                      ELSE NoParse

\* json.loads(s): one value between optional whitespace and nothing else;
\* ok = FALSE stands for the JSONDecodeError
json_loads(s) ==
  LET r == ParseValue(s, SkipWs(s, 1))
  IN  IF r.ok /\ SkipWs(s, r.pos) = Len(s) + 1 THEN r ELSE NoParse

\* ------------------------------------------------------------------------
\* safe_parse_json and call_gemini_json
\* ------------------------------------------------------------------------

K_error == <<"e", "r", "r", "o", "r">>

K_raw == <<"r", "a", "w">>

\* U+0060, which a TLA+ string cannot contain, is the element "backtick"
Backtick == "backtick"

Fence == <<Backtick, Backtick, Backtick>>

JsonTag == <<"j", "s", "o", "n">>

MsgEmptyResponse ==
  <<"E", "m", "p", "t", "y", " ", "m", "o", "d", "e", "l", " ", "r", "e", "s",
    "p", "o", "n", "s", "e">>

MsgInvalidJson ==
  <<"M", "o", "d", "e", "l", " ", "d", "i", "d", " ", "n", "o", "t", " ", "r",
    "e", "t", "u", "r", "n", " ", "v", "a", "l", "i", "d", " ", "J", "S", "O",
    "N">>

\* {"error": "Empty model response"}
EmptyResponseError == Obj(K_error :> Str(MsgEmptyResponse))

\* {"error": "Model did not return valid JSON", "raw": text}
InvalidJsonError(text) ==
  Obj(K_error :> Str(MsgInvalidJson) @@ K_raw :> Str(text))

\* the fence removal of safe_parse_json: strip the backticks at both ends,
\* remove the first "json", strip whitespace
StripFence(t) ==
  IF py_startswith(t, Fence)
  THEN py_strip(py_replace_first(py_strip(t, {Backtick}), JsonTag), Whitespace)
  ELSE t

\* the brace slicing of safe_parse_json: first "{" to last "}" when both exist
\* in that order
SliceBraces(t) ==
  LET start == py_find(t, "{")
      end == py_rfind(t, "}")
  IN  IF start # -1 /\ end # -1 /\ end > start
      THEN py_slice(t, start, end + 1)
      ELSE t

\* safe_parse_json(text): the parsed value, or an error dict
safe_parse_json(text) ==
  IF text = << >> THEN EmptyResponseError
  ELSE LET t == SliceBraces(StripFence(py_strip(text, Whitespace)))
           r == json_loads(t)
       IN  IF r.ok THEN r.val ELSE InvalidJsonError(text)

\* ------------------------------------------------------------------------
\* datetime.date: a date is its proleptic Gregorian ordinal (0001-01-01 = 1)
\* ------------------------------------------------------------------------

is_leap(y) == y % 4 = 0 /\ (y % 100 # 0 \/ y % 400 = 0)

days_before_year(y) ==
  (y - 1) * 365 + ((y - 1) \div 4) - ((y - 1) \div 100) + ((y - 1) \div 400)

days_in_month(y, m) ==
  IF m = 2 THEN (IF is_leap(y) THEN 29 ELSE 28)
  ELSE IF m \in {4, 6, 9, 11} THEN 30 ELSE 31

RECURSIVE days_before_month(_, _)
days_before_month(y, m) ==
  IF m = 1 THEN 0 ELSE days_before_month(y, m - 1) + days_in_month(y, m - 1)

ymd2ord(y, m, d) == days_before_year(y) + days_before_month(y, m) + d

\* the year, month and day of ordinal n
ord2ymd(n) ==
  LET y == CHOOSE c \in ((n \div 366) .. (n \div 365 + 1)) :
             c >= 1 /\ days_before_year(c) < n /\ n <= days_before_year(c + 1)
      r == n - days_before_year(y)
      m == CHOOSE c \in 1..12 :
             days_before_month(y, c) < r /\ r <= days_before_month(y, c) + days_in_month(y, c)
  IN  <<y, m, r - days_before_month(y, m)>>

\* the ordinal of the Monday that starts ISO week 1 of the year
isoweek1monday(year) ==
  LET firstday == ymd2ord(year, 1, 1)
      firstweekday == (firstday + 6) % 7
      week1monday == firstday - firstweekday
  IN  IF firstweekday > 3 THEN week1monday + 7 ELSE week1monday

\* date.isocalendar(): <<iso_year, iso_week, iso_weekday>>
isocalendar(n) ==
  LET year == ord2ymd(n)[1]
      week == (n - isoweek1monday(year)) \div 7
  IN  IF n < isoweek1monday(year)
      THEN LET w1 == isoweek1monday(year - 1)
           IN  <<year - 1, ((n - w1) \div 7) + 1, ((n - w1) % 7) + 1>>
      ELSE IF week >= 52 /\ n >= isoweek1monday(year + 1)
      THEN <<year + 1, 1, ((n - isoweek1monday(year + 1)) % 7) + 1>>
      ELSE <<year, week + 1, ((n - isoweek1monday(year)) % 7) + 1>>

\* whether date.fromisocalendar(year, week, day) accepts its arguments
isocalendar_valid(year, week, day) ==
  /\ year \in 1..9999
  /\ day \in 1..7
  /\ \/ week \in 1..52
     \/ /\ week = 53
        /\ LET first_weekday == ymd2ord(year, 1, 1) % 7
           IN  first_weekday = 4 \/ (first_weekday = 3 /\ is_leap(year))

\* date.fromisocalendar(year, week, day)
fromisocalendar(year, week, day) ==
  isoweek1monday(year) + (week - 1) * 7 + (day - 1)

RECURSIVE IntToDigits(_)
\* str(n) for n >= 0
IntToDigits(n) ==
  LET d == <<"0", "1", "2", "3", "4", "5", "6", "7", "8", "9">>[(n % 10) + 1]
  IN  IF n < 10 THEN <<d>> ELSE Append(IntToDigits(n \div 10), d)

\* n formatted with at least w digits, zero padded on the left
RECURSIVE ZeroPad(_, _)
ZeroPad(ds, w) == IF Len(ds) >= w THEN ds ELSE ZeroPad(<<"0">> \o ds, w)

DigitValue(c) == CHOOSE n \in 0..9 : IntToDigits(n) = <<c>>

RECURSIVE DigitsToInt(_)
\* int(s) for a non-empty s of digits
DigitsToInt(ds) ==
  IF Len(ds) = 1 THEN DigitValue(ds[1])
  ELSE DigitsToInt(SubSeq(ds, 1, Len(ds) - 1)) * 10 + DigitValue(ds[Len(ds)])

\* date.isoformat(): YYYY-MM-DD
isoformat(n) ==
  LET ymd == ord2ymd(n)
  IN  ZeroPad(IntToDigits(ymd[1]), 4) \o <<"-">> \o ZeroPad(IntToDigits(ymd[2]), 2)
        \o <<"-">> \o ZeroPad(IntToDigits(ymd[3]), 2)

\* week_id_of with the calendar year in place of the ISO year
week_id_of_CalendarYear(d) ==
  LET iso == isocalendar(d)
  IN  IntToDigits(ord2ymd(d)[1]) \o <<"-", "W">> \o ZeroPad(IntToDigits(iso[2]), 2)

\* f"{iso_year}-W{iso_week:02d}" for the date d
week_id_of(d) ==
  LET iso == isocalendar(d)
  IN  IntToDigits(iso[1]) \o <<"-", "W">> \o ZeroPad(IntToDigits(iso[2]), 2)

\* ------------------------------------------------------------------------
\* weekly_plan_to_by_date
\* ------------------------------------------------------------------------

K_day == <<"d", "a", "y">>

K_blocks == <<"b", "l", "o", "c", "k", "s">>

None == Lit("null")

\* the keys of day_to_offset in insertion order; the offset of DayNames[i]
\* is i - 1
DayNames ==
  << <<"M", "o", "n", "d", "a", "y">>,
     <<"T", "u", "e", "s", "d", "a", "y">>,
     <<"W", "e", "d", "n", "e", "s", "d", "a", "y">>,
     <<"T", "h", "u", "r", "s", "d", "a", "y">>,
     <<"F", "r", "i", "d", "a", "y">>,
     <<"S", "a", "t", "u", "r", "d", "a", "y">>,
     <<"S", "u", "n", "d", "a", "y">> >>

\* offsets counted from 1
day_to_offset_FromOne(i) == i

day_to_offset(i) == i - 1

IsDigits(ds) == ds # << >> /\ \A i \in 1..Len(ds) : ds[i] \in Digits

\* a raised exception, and a returned value
Raised == [ok |-> FALSE, val |-> << >>]

Returned(val) == [ok |-> TRUE, val |-> val]

\* week_id.split("-W") unpacked into two parts and converted by int():
\* <<iso_year, iso_week>>; ok = FALSE when the unpacking or int() raises
split_week_id(week_id) ==
  LET occ == Occurrences(week_id, <<"-", "W">>)
  IN  IF Cardinality(occ) # 1 THEN Raised
      ELSE LET i == SetMin(occ)
               year_str == SubSeq(week_id, 1, i - 1)
               week_str == SubSeq(week_id, i + 2, Len(week_id))
           IN  IF IsDigits(year_str) /\ IsDigits(week_str)
               THEN Returned(<<DigitsToInt(year_str), DigitsToInt(week_str)>>)
               ELSE Raised

\* the Monday of the ISO week named by week_id (lines 144-149)
week_start_of(week_id) ==
  LET yw == split_week_id(week_id)
  IN  IF yw.ok /\ isocalendar_valid(yw.val[1], yw.val[2], 1)
      THEN Returned(fromisocalendar(yw.val[1], yw.val[2], 1))
      ELSE Raised

\* whether the loop "for item in weekly_plan or []" raises: the plan is truthy
\* and not a list, or an item is not a dict, or an item's day is unhashable
normalize_raises(weekly_plan) ==
  /\ Truthy(weekly_plan)
  /\ \/ ~isinstance_list(weekly_plan)
     \/ \E i \in 1..Len(weekly_plan.v) :
          \/ ~isinstance_dict(weekly_plan.v[i])
          \/ dict_get(weekly_plan.v[i], K_day, None).k \in {"arr", "obj"}

\* normalized.get(day, []) after the loop: the blocks of the last item whose
\* day is this name ("blocks" missing or falsy gives [])
normalized_get(weekly_plan, day) ==
  LET items == IF Truthy(weekly_plan) THEN weekly_plan.v ELSE << >>
      hits == {i \in 1..Len(items) : dict_get(items[i], K_day, None) = Str(day)}
  IN  IF hits = {} THEN EmptyList
      ELSE LET blocks == dict_get(items[SetMax(hits)], K_blocks, EmptyList)
           IN  IF Truthy(blocks) THEN blocks ELSE EmptyList

\* weekly_plan_to_by_date(week_id, weekly_plan); week_id is a str
weekly_plan_to_by_date(week_id, weekly_plan) ==
  IF week_id = << >> \/ Occurrences(week_id, <<"-", "W">>) = {}
  THEN Returned(<< >>)
  ELSE LET week_start == week_start_of(week_id)
       IN  IF ~week_start.ok \/ normalize_raises(weekly_plan) THEN Raised
           ELSE Returned([i \in 1..7 |->
                  [day |-> DayNames[i],
                   date |-> isoformat(week_start.val + day_to_offset(i)),
                   blocks |-> normalized_get(weekly_plan, DayNames[i])]])

\* ------------------------------------------------------------------------
\* Bounds and inputs
\* ------------------------------------------------------------------------

\* number of requests in flight at once
NumProcs == 2

\* number of merges (saves followed by an event) in one behaviour
MaxMerges == 2

\* number of days the clock advances
MaxTicks == 1

Procs == 1..NumProcs

\* the local date at the start: Sunday 2026-01-04, the last day of 2026-W01
FirstDay == ymd2ord(2026, 1, 4)

Days == FirstDay..(FirstDay + MaxTicks)

DEFAULT_USER_ID == <<"d", "e", "f", "a", "u", "l", "t">>

K_tasks == <<"t", "a", "s", "k", "s">>

K_weekly_plan == <<"w", "e", "e", "k", "l", "y", "_", "p", "l", "a", "n">>

K_changes == <<"c", "h", "a", "n", "g", "e", "s">>

K_conflicts == <<"c", "o", "n", "f", "l", "i", "c", "t", "s">>

K_title == <<"t", "i", "t", "l", "e">>

K_task == <<"t", "a", "s", "k">>

\* the text of a JSON string with characters s
Quoted(s) == <<"\"">> \o s \o <<"\"">>

\* the text {"key":body}
Member1(key, body) == <<"{">> \o Quoted(key) \o <<":">> \o body \o <<"}">>

\* the text [body]
Bracketed(body) == <<"[">> \o body \o <<"]">>

\* body inside a ```json fence
Fenced(body) == Fence \o JsonTag \o <<"\n">> \o body \o <<"\n">> \o Fence

\* {"tasks":[{"title":"<c>"}]}
TasksText(c) == Member1(K_tasks, Bracketed(Member1(K_title, Quoted(<<c>>))))

\* {"weekly_plan":[{"day":"<day>","blocks":[{"task":"<c>"}]}],"<key>":["<n>"]}
PlanText(day, c, key, n) ==
  <<"{">> \o Quoted(K_weekly_plan) \o <<":">>
    \o Bracketed(<<"{">> \o Quoted(K_day) \o <<":">> \o Quoted(day) \o <<",">>
                   \o Quoted(K_blocks) \o <<":">>
                   \o Bracketed(Member1(K_task, Quoted(<<c>>))) \o <<"}">>)
    \o <<",">> \o Quoted(key) \o <<":">> \o Bracketed(Quoted(<<n>>)) \o <<"}">>

TxtRefusal ==
  <<"I", " ", "c", "a", "n", "n", "o", "t", " ", "h", "e", "l", "p", " ",
    "w", "i", "t", "h", " ", "t", "h", "a", "t", ".">>

TxtProseBefore ==
  <<"H", "e", "r", "e", " ", "i", "s", " ", "t", "h", "e", " ", "J", "S",
    "O", "N", ":", "\n">>

TxtProseAfter ==
  <<"\n", "H", "o", "p", "e", " ", "t", "h", "a", "t", " ", "h", "e", "l",
    "p", "s", "!">>

\* the texts the oracle answers an extraction prompt with
ExtractTexts ==
  { TxtProseBefore \o Fenced(TasksText("y")) \o TxtProseAfter,
    TxtRefusal,
    Member1(K_tasks, Bracketed(<< >>)),
    Member1(K_tasks, Quoted(<<"x">>)),
    Bracketed(<<"1">>) }

\* the texts the oracle answers a scheduling prompt with
ScheduleTexts ==
  { Fenced(PlanText(DayNames[1], "x", K_changes, "c")),
    TxtRefusal,
    Bracketed(<<"1">>) }

\* the user texts of the text field
UserTexts == {<< >>, <<" ">>, <<"a">>}

\* the values a client sends in the form field pending_tasks_json
PendingTexts ==
  { << >>,
    Member1(K_tasks, <<" ">> \o Bracketed(Member1(K_title, <<" ">> \o Quoted(<<"x">>)))),
    Member1(K_tasks, <<" ">> \o Bracketed(<< >>)),
    Member1(K_tasks, <<" ">> \o Quoted(<<"x">>)),
    <<"o", "o", "p", "s">> }

\* model.generate_content(prompt): a raised transport error, or a text
OracleOutcomes(texts) ==
  {[raise |-> TRUE, text |-> << >>]} \cup {[raise |-> FALSE, text |-> t] : t \in texts}

\* call_gemini_json(prompt) for one outcome of the oracle call
call_gemini_json(outcome) ==
  IF outcome.raise THEN [ok |-> FALSE, val |-> None]
  ELSE [ok |-> TRUE, val |-> safe_parse_json(outcome.text)]

ExtractResults == {call_gemini_json(o) : o \in OracleOutcomes(ExtractTexts)}

ScheduleResults == {call_gemini_json(o) : o \in OracleOutcomes(ScheduleTexts)}

\* ------------------------------------------------------------------------
\* State
\* ------------------------------------------------------------------------

VARIABLES
  store,        \* the weekly_plans collection: document key -> snapshot
  events,       \* the events_log collection, in the order of the add calls
  today,        \* today_local_date(), an ordinal
  pc,           \* per request slot: the network call the handler is about to make
  req,          \* per request slot: the handler and its form or payload fields
  week_doc,     \* per request slot: the handler's local week_doc
  new_tasks,    \* per request slot: the handler's local new_tasks
  updated,      \* per request slot: the handler's local updated
  resp,         \* per request slot: how the slot's last request ended
  oracle_text,  \* input of the safe_parse_json check
  parse_result, \* its result
  exp_input,    \* input of the weekly_plan_to_by_date check
  exp_result    \* its result

vars == <<store, events, today, pc, req, week_doc, new_tasks, updated, resp,
          oracle_text, parse_result, exp_input, exp_result>>

fn_vars == <<oracle_text, parse_result, exp_input, exp_result>>

\* current_week_id() on each day of the model
WeekIdOfDay == [d \in Days |-> week_id_of(d)]

\* current_week_id()
current_week_id == WeekIdOfDay[today]

\* the document key of week_doc_ref(user_id, week_id)
week_doc_ref(user_id, week_id) == user_id \o <<"_", "_">> \o week_id

Keys == {week_doc_ref(DEFAULT_USER_ID, week_id_of(d)) : d \in Days}

\* a week document; created_at and updated_at are left out
Doc(user_id, week_id, version, tasks, weekly_plan) ==
  [user_id |-> user_id, week_id |-> week_id, version |-> version,
   tasks |-> tasks, weekly_plan |-> weekly_plan]

NoData == Doc(<< >>, << >>, 0, << >>, EmptyList)

\* a snapshot of a key without a document, and of a key with one
Absent == [exists |-> FALSE, data |-> NoData]

Present(data) == [exists |-> TRUE, data |-> data]

NoRequest == [handler |-> "none", input_text |-> << >>, action |-> "",
              pending_tasks_json |-> << >>]

\* a request that can reach save_week
IsMerge(r) ==
  \/ r.handler = "api_weekly_add_text"
  \/ r.handler = "ui_action" /\ r.action = "confirm_add"

\* merges in progress plus merges logged
MergesBegun == Cardinality({p \in Procs : IsMerge(req[p])}) + Len(events)

SrvInit ==
  /\ store = [key \in Keys |-> Absent]
  /\ events = << >>
  /\ today = FirstDay
  /\ pc = [p \in Procs |-> "idle"]
  /\ req = [p \in Procs |-> NoRequest]
  /\ week_doc = [p \in Procs |-> NoData]
  /\ new_tasks = [p \in Procs |-> EmptyList]
  /\ updated = [p \in Procs |-> None]
  /\ resp = [p \in Procs |-> "none"]

\* a call that has not returned yet, and one that has
Pending == [done |-> FALSE, ok |-> FALSE, val |-> << >>]

Done(r) == [done |-> TRUE, ok |-> r.ok, val |-> <<r.val>>]

FnIdle ==
  /\ oracle_text = << >>
  /\ parse_result = Pending
  /\ exp_input = <<<< >>, EmptyList>>
  /\ exp_result = Pending

Init == SrvInit /\ FnIdle

\* the handler of slot p goes on to the network call next_pc with these locals
Goto(p, next_pc, r, doc, tasks, upd) ==
  /\ pc' = [pc EXCEPT ![p] = next_pc]
  /\ req' = [req EXCEPT ![p] = r]
  /\ week_doc' = [week_doc EXCEPT ![p] = doc]
  /\ new_tasks' = [new_tasks EXCEPT ![p] = tasks]
  /\ updated' = [updated EXCEPT ![p] = upd]
  /\ resp' = [resp EXCEPT ![p] = "none"]

\* the handler of slot p returns and its locals are gone; status is "ok"
\* (normal result), "error" (a result carrying an error string) or "raised"
\* (unhandled exception)
Finish(p, status) ==
  /\ pc' = [pc EXCEPT ![p] = "idle"]
  /\ req' = [req EXCEPT ![p] = NoRequest]
  /\ week_doc' = [week_doc EXCEPT ![p] = NoData]
  /\ new_tasks' = [new_tasks EXCEPT ![p] = EmptyList]
  /\ updated' = [updated EXCEPT ![p] = None]
  /\ resp' = [resp EXCEPT ![p] = status]

\* the handler of slot p goes on or returns, as told by the step c
Step(p, c, doc, upd) ==
  IF c.pc = "idle" THEN Finish(p, c.resp)
  ELSE Goto(p, c.pc, req[p], doc, c.new_tasks, upd)

\* slot p is free for a new request r
Free(p, r) ==
  /\ pc[p] = "idle"
  /\ IsMerge(r) => MergesBegun < MaxMerges

\* ------------------------------------------------------------------------
\* Handlers: entry
\* ------------------------------------------------------------------------

Request(handler, text, action, pending) ==
  [handler |-> handler, input_text |-> py_strip(text, Whitespace),
   action |-> action, pending_tasks_json |-> pending]

\* the forms posted to /ui/action
UiForms ==
  {<<text, "extract_preview", << >> >> : text \in UserTexts}
    \cup {<<<< >>, "confirm_add", pending>> : pending \in PendingTexts}
    \cup {<<<< >>, "view_week", << >> >>, <<<< >>, "delete_week", << >> >>}

\* a handler that starts with get_or_init_week
EnterWithLoad(p, r) ==
  /\ Free(p, r)
  /\ Goto(p, "get_week", r, NoData, EmptyList, None)
  /\ UNCHANGED <<store, events, today, fn_vars>>

\* GET /
home(p) == EnterWithLoad(p, Request("home", << >>, "", << >>))

\* POST /ui/action
ui_action(p) ==
  \E f \in UiForms : EnterWithLoad(p, Request("ui_action", f[1], f[2], f[3]))

\* GET /api/weekly/get
api_weekly_get(p) == EnterWithLoad(p, Request("api_weekly_get", << >>, "", << >>))

\* EnterWithText without the test of the text
EnterWithText_NoCheck(p, handler) ==
  \E text \in UserTexts :
    LET r == Request(handler, text, "", << >>)
    IN  /\ Free(p, r)
        /\ Goto(p, "extract", r, NoData, EmptyList, None)
        /\ UNCHANGED <<store, events, today, fn_vars>>

\* the entry of api_extract and api_weekly_add_text: 400 on empty text, else
\* about to call the extraction oracle
EnterWithText(p, handler) ==
  \E text \in UserTexts :
    LET r == Request(handler, text, "", << >>)
    IN  /\ Free(p, r)
        /\ IF r.input_text = << >>
           THEN Finish(p, "error")
           ELSE Goto(p, "extract", r, NoData, EmptyList, None)
        /\ UNCHANGED <<store, events, today, fn_vars>>

\* POST /api/extract
api_extract(p) == EnterWithText(p, "api_extract")

\* POST /api/weekly/add_text
api_weekly_add_text(p) == EnterWithText(p, "api_weekly_add_text")

\* ------------------------------------------------------------------------
\* Handlers: after get_or_init_week has returned doc
\* ------------------------------------------------------------------------

\* the handler returns with this status
Return(status) == [pc |-> "idle", resp |-> status, new_tasks |-> EmptyList]

\* the handler goes on to the network call next_pc with new_tasks = tasks
Continue(next_pc, tasks) == [pc |-> next_pc, resp |-> "none", new_tasks |-> tasks]

\* json.loads(pending_tasks_json) for each form value
PendingParsed == [t \in PendingTexts |-> json_loads(t)]

\* ui_action with action "confirm_add", lines 306-315: up to the scheduling call
confirm_add(p) ==
  LET pending == PendingParsed[req[p].pending_tasks_json]
      tasks == dict_get(pending.val, K_tasks, EmptyList)
  IN  IF req[p].pending_tasks_json = << >> THEN Return("error")
      ELSE IF ~pending.ok \/ ~isinstance_dict(pending.val) THEN Return("error")
      ELSE IF ~isinstance_list(tasks) \/ Len(tasks.v) = 0 THEN Return("error")
      ELSE Continue("schedule", tasks)

\* what the handler of slot p does with the loaded doc up to its next network
\* call or its return; first = FALSE for the load of ui_action's view_week
AfterLoad(p, doc, first) ==
  LET display == weekly_plan_to_by_date(doc.week_id, doc.weekly_plan)
      h == req[p].handler
  IN  CASE h = "home" -> Return(IF display.ok THEN "ok" ELSE "raised")
        [] h = "api_weekly_get" -> Return("ok")
        [] h = "api_weekly_add_text" ->
             IF isinstance_list(new_tasks[p])
             THEN Continue("schedule", new_tasks[p])
             ELSE Return("raised")
        [] h = "ui_action" /\ ~first ->
             Return(IF display.ok THEN "ok" ELSE "error")
        [] h = "ui_action" /\ first ->
             IF ~display.ok THEN Return("raised")
             ELSE CASE req[p].action = "extract_preview" ->
                         IF req[p].input_text = << >>
                         THEN Return("error")
                         ELSE Continue("extract", new_tasks[p])
                    [] req[p].action = "confirm_add" -> confirm_add(p)
                    [] req[p].action = "view_week" -> Continue("view_get", new_tasks[p])
                    [] OTHER -> Return("error")

\* ------------------------------------------------------------------------
\* get_or_init_week, in two store calls
\* ------------------------------------------------------------------------

\* get_or_init_week that builds a new document whatever ref.get() returned
get_or_init_week_Always(p) ==
  /\ pc[p] \in {"get_week", "view_get"}
  /\ Goto(p, IF pc[p] = "get_week" THEN "init_week" ELSE "view_init", req[p],
          Doc(DEFAULT_USER_ID, current_week_id, 0, << >>, EmptyList),
          new_tasks[p], None)
  /\ UNCHANGED <<store, events, today, fn_vars>>

\* lines 94-106: ref.get(); an existing document is returned (its fields are
\* all set, so the setdefault calls change nothing), a missing one is built
get_or_init_week(p) ==
  /\ pc[p] \in {"get_week", "view_get"}
  /\ LET week_id == current_week_id
         snap == store[week_doc_ref(DEFAULT_USER_ID, week_id)]
         first == pc[p] = "get_week"
     IN  IF snap.exists
         THEN Step(p, AfterLoad(p, snap.data, first), snap.data, None)
         ELSE Goto(p, IF first THEN "init_week" ELSE "view_init", req[p],
                   Doc(DEFAULT_USER_ID, week_id, 0, << >>, EmptyList),
                   new_tasks[p], None)
  /\ UNCHANGED <<store, events, today, fn_vars>>

\* lines 108-119: ref.set(data) of the new document
init_week(p) ==
  /\ pc[p] \in {"init_week", "view_init"}
  /\ store' = [store EXCEPT ![week_doc_ref(DEFAULT_USER_ID, week_doc[p].week_id)] =
                 Present(week_doc[p])]
  /\ Step(p, AfterLoad(p, week_doc[p], pc[p] = "init_week"), week_doc[p], None)
  /\ UNCHANGED <<events, today, fn_vars>>

\* ------------------------------------------------------------------------
\* Oracle calls, save_week, log_event
\* ------------------------------------------------------------------------

\* the status of a handler that ends with an exception: ui_action catches it
\* in its try block, the API handlers do not
Failed(p) == IF req[p].handler = "ui_action" THEN "error" ELSE "raised"

\* x.get("tasks", []) or []
tasks_or_empty(x) ==
  LET t == dict_get(x, K_tasks, EmptyList)
  IN  IF Truthy(t) THEN t ELSE EmptyList

\* AfterExtract with a preview that goes on to schedule what it extracted
AfterExtract_PreviewCommits(p, r) ==
  IF ~r.ok \/ (req[p].handler # "api_extract" /\ ~isinstance_dict(r.val))
  THEN Return(Failed(p))
  ELSE IF req[p].handler = "api_weekly_add_text"
  THEN Continue("get_week", tasks_or_empty(r.val))
  ELSE IF req[p].handler = "ui_action" /\ isinstance_list(tasks_or_empty(r.val))
  THEN Continue("schedule", tasks_or_empty(r.val))
  ELSE Return("ok")

\* what follows call_gemini_json(build_extract_prompt(text)) = r up to the next
\* network call: lines 299-303, 381-382 and 397-398
AfterExtract(p, r) ==
  IF ~r.ok \/ (req[p].handler # "api_extract" /\ ~isinstance_dict(r.val))
  THEN Return(Failed(p))
  ELSE IF req[p].handler = "api_weekly_add_text"
  THEN Continue("get_week", tasks_or_empty(r.val))
  ELSE Return("ok")

\* the extraction oracle call of slot p
extract(p) ==
  /\ pc[p] = "extract"
  /\ \E r \in ExtractResults : Step(p, AfterExtract(p, r), week_doc[p], None)
  /\ UNCHANGED <<store, events, today, fn_vars>>

\* call_gemini_json(build_update_week_prompt(...)), lines 317 and 404; a result
\* that is not a dict makes updated.get raise before anything is saved
schedule(p) ==
  /\ pc[p] = "schedule"
  /\ \E r \in ScheduleResults :
       IF ~r.ok \/ ~isinstance_dict(r.val)
       THEN Finish(p, Failed(p))
       ELSE Goto(p, "save", req[p], week_doc[p], new_tasks[p], r.val)
  /\ UNCHANGED <<store, events, today, fn_vars>>

\* Merged without storing a task twice
Merged_Dedup(doc, tasks, upd) ==
  Doc(doc.user_id, doc.week_id, doc.version + 1,
      doc.tasks \o SelectSeq(tasks.v, LAMBDA t : \A i \in 1..Len(doc.tasks) : doc.tasks[i] # t),
      dict_get(upd, K_weekly_plan, EmptyList))

\* Merged with the version left as loaded
Merged_SameVersion(doc, tasks, upd) ==
  Doc(doc.user_id, doc.week_id, doc.version, doc.tasks \o tasks.v,
      dict_get(upd, K_weekly_plan, EmptyList))

\* Merged with the new tasks in front
Merged_Prepend(doc, tasks, upd) ==
  Doc(doc.user_id, doc.week_id, doc.version + 1, tasks.v \o doc.tasks,
      dict_get(upd, K_weekly_plan, EmptyList))

\* the document built by lines 319-321 and 406-408 from the loaded doc
Merged(doc, tasks, upd) ==
  Doc(doc.user_id, doc.week_id, doc.version + 1, doc.tasks \o tasks.v,
      dict_get(upd, K_weekly_plan, EmptyList))

\* save_week with an optimistic check of the stored version
save_week_cas(p) ==
  /\ pc[p] = "save"
  /\ IF store[week_doc_ref(DEFAULT_USER_ID, week_doc[p].week_id)].exists /\ store[week_doc_ref(DEFAULT_USER_ID, week_doc[p].week_id)].data.version = week_doc[p].version
     THEN LET doc == Merged(week_doc[p], new_tasks[p], updated[p])
          IN  /\ store' = [store EXCEPT ![week_doc_ref(DEFAULT_USER_ID, week_doc[p].week_id)] = Present(doc)]
              /\ Goto(p, "log", req[p], doc, new_tasks[p], updated[p])
     ELSE Finish(p, "error") /\ UNCHANGED store
  /\ UNCHANGED <<events, today, fn_vars>>

\* save_week under the key of the current week
save_week_CurrentWeek(p) ==
  /\ pc[p] = "save"
  /\ LET doc == Merged(week_doc[p], new_tasks[p], updated[p])
     IN  /\ store' = [store EXCEPT ![week_doc_ref(DEFAULT_USER_ID, current_week_id)] =
                        Present(doc)]
         /\ Goto(p, "log", req[p], doc, new_tasks[p], updated[p])
  /\ UNCHANGED <<events, today, fn_vars>>

\* lines 319-323 and 406-410: the local update of week_doc and
\* save_week(DEFAULT_USER_ID, week_doc), which overwrites the document of
\* week_doc["week_id"]
save_week(p) ==
  /\ pc[p] = "save"
  /\ LET doc == Merged(week_doc[p], new_tasks[p], updated[p])
     IN  /\ store' = [store EXCEPT ![week_doc_ref(DEFAULT_USER_ID, doc.week_id)] =
                        Present(doc)]
         /\ Goto(p, "log", req[p], doc, new_tasks[p], updated[p])
  /\ UNCHANGED <<events, today, fn_vars>>

\* Event without the new tasks
Event_NoTasks(p) ==
  [type |-> IF req[p].handler = "ui_action" THEN "ui_add_to_week" ELSE "api_add_text",
   user_id |-> DEFAULT_USER_ID,
   week_id |-> week_doc[p].week_id,
   new_tasks |-> EmptyList,
   changes |-> dict_get(updated[p], K_changes, EmptyList),
   conflicts |-> dict_get(updated[p], K_conflicts, EmptyList)]

\* the payload of lines 325-332 and 412-419; created_at is left out
Event(p) ==
  [type |-> IF req[p].handler = "ui_action" THEN "ui_add_to_week" ELSE "api_add_text",
   user_id |-> DEFAULT_USER_ID,
   week_id |-> week_doc[p].week_id,
   new_tasks |-> new_tasks[p],
   changes |-> dict_get(updated[p], K_changes, EmptyList),
   conflicts |-> dict_get(updated[p], K_conflicts, EmptyList)]

\* log_event(payload) and the rest of the handler: ui_action refreshes its
\* display inside the try block, api_weekly_add_text returns
log_event(p) ==
  /\ pc[p] = "log"
  /\ events' = Append(events, Event(p))
  /\ IF req[p].handler = "ui_action"
        /\ ~weekly_plan_to_by_date(week_doc[p].week_id, week_doc[p].weekly_plan).ok
     THEN Finish(p, "error")
     ELSE Finish(p, "ok")
  /\ UNCHANGED <<store, today, fn_vars>>

\* the local date moves to the next day
Tick ==
  /\ today < FirstDay + MaxTicks
  /\ today' = today + 1
  /\ UNCHANGED <<store, events, pc, req, week_doc, new_tasks, updated, resp, fn_vars>>

Next ==
  \/ \E p \in Procs : home(p)
  \/ \E p \in Procs : ui_action(p)
  \/ \E p \in Procs : api_extract(p)
  \/ \E p \in Procs : api_weekly_get(p)
  \/ \E p \in Procs : api_weekly_add_text(p)
  \/ \E p \in Procs : get_or_init_week(p)
  \/ \E p \in Procs : init_week(p)
  \/ \E p \in Procs : extract(p)
  \/ \E p \in Procs : schedule(p)
  \/ \E p \in Procs : save_week(p)
  \/ \E p \in Procs : log_event(p)

\* requests within one local day
Spec == Init /\ [][Next]_vars

NextClock == Next \/ Tick

\* requests while the local date moves on
SpecClock == Init /\ [][NextClock]_vars

\* ------------------------------------------------------------------------
\* Properties of the merge operation
\* ------------------------------------------------------------------------

\* the key of the document slot p loaded
KeyOf(p) == week_doc_ref(DEFAULT_USER_ID, week_doc[p].week_id)

\* slot p takes its save_week step
Saves(p) == pc[p] = "save" /\ pc'[p] = "log"

\* slot p takes its ref.set step of get_or_init_week
Inits(p) == pc[p] \in {"init_week", "view_init"} /\ pc'[p] # pc[p]

IsPrefix(s, t) == Len(s) <= Len(t) /\ SubSeq(t, 1, Len(s)) = s

TaskX == Obj(K_title :> Str(<<"x">>))

TaskY == Obj(K_title :> Str(<<"y">>))

\* the weekly_plan of the scheduling answer in ScheduleTexts
PlanMonday ==
  Arr(<<Obj(K_day :> Str(DayNames[1])
            @@ K_blocks :> Arr(<<Obj(K_task :> Str(<<"x">>))>>))>>)

\* the error values safe_parse_json returns for a scheduling answer
ScheduleParseErrors == {InvalidJsonError(t) : t \in ScheduleTexts} \cup {EmptyResponseError}

\* C1: when the scheduling oracle's answer cannot be parsed as JSON (or the call
\* raises, which ends the handler at once), the steps of that operation leave
\* the store and the event log unchanged.
C1_SchedulingFailureLeavesStore ==
  [][\A p \in Procs :
       (updated[p] \in ScheduleParseErrors /\ pc'[p] # pc[p])
         => (store' = store /\ events' = events)]_vars

\* C2: a merge operation whose task collection is empty or not a list never
\* gets to the scheduling call, the save or the event.
C2_BadExtractionAborts ==
  \A p \in Procs :
    (IsMerge(req[p]) /\ pc[p] \in {"schedule", "save", "log"})
      => (isinstance_list(new_tasks[p]) /\ Len(new_tasks[p].v) > 0)

\* C3: the save of a merge that loaded version v and tasks T, has new tasks N
\* and a scheduling result with weekly_plan P, stores version v+1, tasks T
\* followed by N (nothing deduplicated) and weekly_plan exactly P.
C3_MergeStoresConcatenation ==
  [][\A p \in Procs :
       Saves(p) =>
         LET stored == store'[KeyOf(p)]
         IN  /\ stored.exists
             /\ stored.data.version = week_doc[p].version + 1
             /\ stored.data.tasks = week_doc[p].tasks \o new_tasks[p].v
             /\ Len(stored.data.tasks) = Len(week_doc[p].tasks) + Len(new_tasks[p].v)
             /\ stored.data.weekly_plan = dict_get(updated[p], K_weekly_plan, EmptyList)
             /\ stored.data.week_id = week_doc[p].week_id]_vars

\* C3 witness: the same task was merged twice, one merge after the other, and
\* is stored twice at version 2 with the plan of the last scheduling answer.
C3_Witness ==
  \E key \in Keys :
    /\ store[key].exists
    /\ store[key].data.version = 2
    /\ store[key].data.tasks = <<TaskX, TaskX>>
    /\ store[key].data.weekly_plan = PlanMonday
    /\ \A p \in Procs : pc[p] = "idle"

\* C4 as stated: the stored version never decreases and every save of a merge
\* raises it by exactly 1, whatever the interleaving.
C4_VersionCountsMerges ==
  [][\A key \in Keys :
       /\ store[key].exists =>
            (store'[key].exists /\ store'[key].data.version >= store[key].data.version)
       /\ \A p \in Procs :
            (Saves(p) /\ KeyOf(p) = key) =>
              store'[key].data.version = store[key].data.version + 1]_vars

\* C4 amended: only the document creation of get_or_init_week and the save of
\* a merge write the store; a created document has version 0; every save of a
\* merge stores the version the merge loaded plus 1, so it raises the stored
\* version by exactly 1 whenever the stored document is still the one the merge
\* loaded.
C4_VersionIsLoadedPlusOne ==
  [][\A p \in Procs :
       /\ store' # store => \E q \in Procs : Inits(q) \/ Saves(q)
       /\ Inits(p) => store'[KeyOf(p)].data.version = 0
       /\ Saves(p) =>
            /\ store'[KeyOf(p)].data.version = week_doc[p].version + 1
            /\ store[KeyOf(p)] = Present(week_doc[p]) =>
                 store'[KeyOf(p)].data.version = store[KeyOf(p)].data.version + 1]_vars

\* C4 witness: a second merge has just saved on top of the first: it loaded
\* version 1 and the store now holds version 2.
C4_Witness ==
  \E p \in Procs :
    /\ pc[p] = "log"
    /\ Len(events) = 1
    /\ week_doc[p].version = 2
    /\ store[KeyOf(p)] = Present(week_doc[p])

\* C5 as stated: every write to the store leaves the previously stored tasks
\* as a prefix of the newly stored ones.
C5_TasksAppendOnly ==
  [][\A key \in Keys :
       store[key].exists =>
         /\ store'[key].exists
         /\ IsPrefix(store[key].data.tasks, store'[key].data.tasks)]_vars

\* C5 amended: every save of a merge stores the tasks the merge loaded followed
\* by its new tasks, so the previously stored tasks stay a prefix whenever the
\* stored document is still the one the merge loaded; the only other write, the
\* document creation of get_or_init_week, stores no tasks.
C5_LoadedTasksArePrefix ==
  [][\A p \in Procs :
       /\ store' # store => \E q \in Procs : Inits(q) \/ Saves(q)
       /\ Inits(p) => store'[KeyOf(p)].data.tasks = << >>
       /\ Saves(p) =>
         /\ IsPrefix(week_doc[p].tasks, store'[KeyOf(p)].data.tasks)
         /\ store[KeyOf(p)] = Present(week_doc[p]) =>
              IsPrefix(store[KeyOf(p)].data.tasks, store'[KeyOf(p)].data.tasks)]_vars

\* C5 witness: a merge of x has just saved on top of a stored y: the store
\* holds y followed by x.
C5_Witness ==
  \E p \in Procs :
    /\ pc[p] = "log"
    /\ store[KeyOf(p)].exists
    /\ store[KeyOf(p)].data.tasks = <<TaskY, TaskX>>

\* the events logged for the week of key
EventsOf(key) ==
  {i \in 1..Len(events) : week_doc_ref(events[i].user_id, events[i].week_id) = key}

AllIdle == \A p \in Procs : pc[p] = "idle"

\* once all requests have returned, a stored version 1 holds exactly the new
\* tasks of one logged merge
VersionOneHoldsOneMerge ==
  \A key \in Keys :
    (AllIdle /\ store[key].exists /\ store[key].data.version = 1)
      => \E i \in EventsOf(key) : store[key].data.tasks = events[i].new_tasks.v

\* C6: a merge that is about to save always saves, also when the stored
\* document is no longer the one it loaded: the save overwrites the document
\* with the loaded tasks followed by its own new tasks at the loaded version
\* plus 1, without comparing versions; so once all requests have returned, a
\* stored version 1 holds the new tasks of one logged merge only, however many
\* merges were saved and logged.
C6_LastSaveWins ==
  [][/\ \A p \in Procs :
          (pc[p] = "save" /\ pc'[p] # "save") =>
            /\ pc'[p] = "log"
            /\ store'[KeyOf(p)].data.version = week_doc[p].version + 1
            /\ store'[KeyOf(p)].data.tasks = week_doc[p].tasks \o new_tasks[p].v
     /\ VersionOneHoldsOneMerge']_vars

\* C6 witness: two merges with different new tasks both loaded version 0, both
\* saved, both logged their event and both reported success; the store holds
\* version 1 with the tasks of one of them only.
C6_Witness ==
  \E key \in Keys :
    /\ AllIdle
    /\ \A p \in Procs : resp[p] = "ok"
    /\ EventsOf(key) = {1, 2}
    /\ {events[1].new_tasks, events[2].new_tasks} = {Arr(<<TaskX>>), Arr(<<TaskY>>)}
    /\ store[key].exists
    /\ store[key].data.version = 1
    /\ Len(store[key].data.tasks) = 1

\* slot p takes its log_event step
Logs(p) == pc[p] = "log" /\ pc'[p] = "idle"

\* C7: the event log changes only by the log_event step of a merge that has
\* saved, which appends one event with that merge's user_id, week_id,
\* new_tasks, changes and conflicts; a merge gets to that step only by its
\* save; the events already logged stay as they are.
C7_OneEventPerMerge ==
  [][/\ IsPrefix(events, events')
     /\ events' # events =>
          \E p \in Procs :
            /\ Logs(p)
            /\ Len(events') = Len(events) + 1
            /\ LET e == events'[Len(events')]
               IN  /\ e.user_id = week_doc[p].user_id
                   /\ e.week_id = week_doc[p].week_id
                   /\ e.new_tasks = new_tasks[p]
                   /\ e.changes = dict_get(updated[p], K_changes, EmptyList)
                   /\ e.conflicts = dict_get(updated[p], K_conflicts, EmptyList)
     /\ \A p \in Procs :
          /\ Logs(p) => events' # events
          /\ (pc'[p] = "log" /\ pc[p] # "log") =>
               (pc[p] = "save" /\ store'[KeyOf(p)] = Present(week_doc'[p]))]_vars

\* C7 witness: one merge of x has saved and logged its event, which carries
\* the task and the changes of the scheduling answer.
C7_Witness ==
  /\ AllIdle
  /\ Len(events) = 1
  /\ events[1].new_tasks = Arr(<<TaskX>>)
  /\ events[1].changes = Arr(<<Str(<<"c">>)>>)
  /\ events[1].week_id = current_week_id
  /\ \E key \in Keys : store[key].exists /\ store[key].data.version = 1

\* ------------------------------------------------------------------------
\* safe_parse_json on bounded texts
\* ------------------------------------------------------------------------

\* longest text of the exhaustive part of the inputs
MaxTextLen == 3

ParseAlphabet == {"{", "}", "\"", ":", "1", "a", " ", Backtick}

ShortTexts == UNION {[1..n -> ParseAlphabet] : n \in 0..MaxTextLen}

\* JSON object texts to put inside a fence
FencePayloads ==
  { <<"{", "}">>,
    Member1(<<"a">>, <<"1">>),
    Member1(JsonTag, <<"1">>),
    Member1(<<"a">>, Quoted(JsonTag)),
    TasksText("x") }

FenceLeads == {<< >>, <<" ", "\n">>, TxtProseBefore}

FenceTags == {<< >>, JsonTag, <<"p", "y">>}

FenceTrails == {<< >>, <<"\n">>, TxtProseAfter}

\* the payload in a triple-backtick fence with a language tag after the
\* opening fence, between a lead and a trail
Wrap(lead, tag, payload, trail) ==
  lead \o Fence \o tag \o <<"\n">> \o payload \o <<"\n">> \o Fence \o trail

WrappedTexts ==
  {Wrap(lead, tag, payload, trail) :
     lead \in FenceLeads, tag \in FenceTags, payload \in FencePayloads,
     trail \in FenceTrails}

InitParse ==
  /\ SrvInit
  /\ oracle_text \in ShortTexts \cup WrappedTexts \cup {TxtRefusal}
  /\ parse_result = Pending
  /\ exp_input = <<<< >>, EmptyList>>
  /\ exp_result = Pending

\* call_gemini_json returns for the answer oracle_text
ParseResponse ==
  /\ ~parse_result.done
  /\ parse_result' = Done(call_gemini_json([raise |-> FALSE, text |-> oracle_text]))
  /\ UNCHANGED <<store, events, today, pc, req, week_doc, new_tasks, updated, resp,
                 oracle_text, exp_input, exp_result>>

NextParse == ParseResponse

SpecParse == InitParse /\ [][NextParse]_vars

\* the value call_gemini_json returned
ParseValueOf == parse_result.val[1]

\* no character of t can start a JSON value
NoJsonStart(t) ==
  \A i \in 1..Len(t) :
    /\ t[i] \notin Digits \cup {"{", "[", "\""}
    /\ \A l \in Literals : ~py_startswith(SubSeq(t, i, Len(t)), l)

\* C8: the response handling never raises; a non-empty text that no JSON
\* value can be read from (it has no braces, brackets, quotes, digits or
\* literals) comes back as the error value carrying the unmodified text; and
\* every result is a JSON object: the parsed one or an error value.
C8_ObjectOrErrorWithRaw ==
  parse_result.done =>
    /\ parse_result.ok
    /\ (oracle_text # << >> /\ NoJsonStart(oracle_text)) =>
         ParseValueOf = InvalidJsonError(oracle_text)
    /\ isinstance_dict(ParseValueOf)

\* C9: a JSON object text in a triple-backtick fence, with or without a
\* language tag, between whitespace or brace-free prose, is parsed to the
\* value of the object text.
C9_FenceRoundTrip ==
  \A lead \in FenceLeads, tag \in FenceTags, payload \in FencePayloads,
     trail \in FenceTrails :
    (parse_result.done /\ oracle_text = Wrap(lead, tag, payload, trail))
      => ParseValueOf = json_loads(payload).val

\* ------------------------------------------------------------------------
\* weekly_plan_to_by_date on bounded plans
\* ------------------------------------------------------------------------

\* longest weekly_plan
MaxPlanLen == 2

\* days whose weeks are expanded: the last day of 2026-W01, a leap day
\* (2024-W09) and 2027-01-01, which lies in 2026-W53
ExpandDays == {ymd2ord(2026, 1, 4), ymd2ord(2024, 2, 29), ymd2ord(2027, 1, 1)}

Block(c) == Obj(K_task :> Str(<<c>>))

Funday == <<"F", "u", "n", "d", "a", "y">>

\* "day" of an entry: canonical names, one in lower case, an unknown name,
\* or no "day" key (<< >> stands for the missing key)
EntryDays == {DayNames[1], DayNames[7], <<"m", "o", "n", "d", "a", "y">>, Funday, << >>}

\* "blocks" of an entry; << >> stands for the missing key
EntryBlocks == {<<Arr(<<Block("x")>>)>>, <<Arr(<<Block("y")>>)>>, <<None>>, << >>}

Entry(day, blocks) ==
  Obj([k \in (IF day = << >> THEN {} ELSE {K_day})
              \cup (IF blocks = << >> THEN {} ELSE {K_blocks}) |->
         IF k = K_day THEN Str(day) ELSE blocks[1]])

Entries == {Entry(day, blocks) : day \in EntryDays, blocks \in EntryBlocks}

WeeklyPlans == {None} \cup {Arr(es) : es \in UNION {[1..n -> Entries] : n \in 0..MaxPlanLen}}

InitExpand ==
  /\ SrvInit
  /\ oracle_text = << >>
  /\ parse_result = Pending
  /\ exp_input \in {<<week_id_of(d), plan>> : d \in ExpandDays, plan \in WeeklyPlans}
  /\ exp_result = Pending

\* weekly_plan_to_by_date returns for exp_input
ExpandWeek ==
  /\ ~exp_result.done
  /\ exp_result' = Done(weekly_plan_to_by_date(exp_input[1], exp_input[2]))
  /\ UNCHANGED <<store, events, today, pc, req, week_doc, new_tasks, updated, resp,
                 oracle_text, parse_result, exp_input>>

NextExpand == ExpandWeek

SpecExpand == InitExpand /\ [][NextExpand]_vars

\* the Monday on or before the day d (ordinal 1 is a Monday)
MondayOf(d) == d - ((d - 1) % 7)

\* the entries of the plan, in order
PlanItems(plan) == IF plan = None THEN << >> ELSE plan.v

\* the positions of the plan's entries for the day name
EntriesFor(plan, day) ==
  {i \in 1..Len(PlanItems(plan)) :
     K_day \in DOMAIN PlanItems(plan)[i].v /\ PlanItems(plan)[i].v[K_day] = Str(day)}

\* C10: for every plan (none, empty, days missing or in any order, entries
\* with unknown or missing day names) of every week, the expansion returns
\* exactly 7 entries, entry i named the i-th of Monday..Sunday and dated the
\* week's Monday + (i - 1) days; its blocks are empty when no input entry has
\* that day, and otherwise the blocks of the (last) input entry with that day,
\* empty when that entry has none; other entries are dropped without error.
C10_SevenDatedDays ==
  \A d \in ExpandDays :
    (exp_result.done /\ exp_input[1] = week_id_of(d)) =>
      LET plan == exp_input[2] IN
      /\ exp_result.ok
      /\ Len(exp_result.val[1]) = 7
      /\ \A i \in 1..7 :
           LET e    == exp_result.val[1][i]
               hits == EntriesFor(plan, DayNames[i])
           IN  /\ e.day = DayNames[i]
               /\ e.date = isoformat(MondayOf(d) + i - 1)
               /\ hits = {} => e.blocks = EmptyList
               /\ hits # {} =>
                    LET item == PlanItems(plan)[SetMax(hits)].v
                    IN  IF K_blocks \in DOMAIN item /\ item[K_blocks] # None
                        THEN e.blocks = item[K_blocks]
                        ELSE e.blocks = EmptyList

\* C10 witness: the plan [Funday: x, Sunday: y] of 2026-W53 expanded to seven
\* days, Monday 2026-12-28 with no blocks and Sunday 2027-01-03 with y.
C10_Witness ==
  /\ exp_result.done
  /\ exp_input = <<<<"2", "0", "2", "6", "-", "W", "5", "3">>,
                   Arr(<<Entry(Funday, <<Arr(<<Block("x")>>)>>),
                         Entry(DayNames[7], <<Arr(<<Block("y")>>)>>)>>)>>
  /\ Len(exp_result.val[1]) = 7
  /\ exp_result.val[1][1] =
       [day |-> DayNames[1],
        date |-> <<"2", "0", "2", "6", "-", "1", "2", "-", "2", "8">>,
        blocks |-> EmptyList]
  /\ exp_result.val[1][7] =
       [day |-> DayNames[7],
        date |-> <<"2", "0", "2", "7", "-", "0", "1", "-", "0", "3">>,
        blocks |-> Arr(<<Block("y")>>)]

\* ------------------------------------------------------------------------
\* Properties of the requests that do not merge
\* ------------------------------------------------------------------------

\* a request to a handler that needs the text field
RequiresText(r) ==
  \/ r.handler \in {"api_extract", "api_weekly_add_text"}
  \/ r.handler = "ui_action" /\ r.action = "extract_preview"

\* POST /ui/action with action extract_preview and an empty text
IsEmptyPreview(r) ==
  r.handler = "ui_action" /\ r.action = "extract_preview" /\ r.input_text = << >>

\* slot p ends a request in the step that accepts it: the 400 of the API
\* handlers
Rejects(p) == pc[p] = "idle" /\ pc'[p] = "idle" /\ resp'[p] # resp[p]

\* the document get_or_init_week builds for a missing week
NewWeek(week_id) == Doc(DEFAULT_USER_ID, week_id, 0, << >>, EmptyList)

\* what every empty-text request does, but for its store effect
EmptyTextShortCircuits(p) ==
  /\ Rejects(p) => store' = store /\ events' = events /\ resp'[p] = "error"
  /\ pc'[p] \in {"extract", "schedule", "save", "log"} =>
       ~(RequiresText(req'[p]) /\ req'[p].input_text = << >>)
  /\ (IsEmptyPreview(req[p]) /\ pc'[p] # pc[p]) =>
       /\ events' = events
       /\ pc'[p] = "idle" => resp'[p] = "error"

\* C11 as stated: a request that requires text and carries an empty or
\* whitespace-only text makes no oracle call, returns an error result, appends
\* no event and changes no stored week document.
C11_EmptyTextChangesNoWeek ==
  [][\A p \in Procs :
       /\ EmptyTextShortCircuits(p)
       /\ (IsEmptyPreview(req[p]) /\ pc'[p] # pc[p]) =>
            \A key \in Keys : store[key].exists => store'[key] = store[key]]_vars

\* C11 amended: such a request makes no oracle call, returns an error result
\* and appends no event; the API handlers touch no store at all, while the UI
\* extract_preview has loaded the week first, and its only store effect is
\* the set of the version-0 document of a week its get found missing (which
\* overwrites whatever another request stored there in between).
C11_EmptyTextOnlyCreatesWeek ==
  [][\A p \in Procs :
       /\ EmptyTextShortCircuits(p)
       /\ (IsEmptyPreview(req[p]) /\ pc'[p] # pc[p] /\ store' # store) =>
            /\ pc[p] = "init_week"
            /\ store' = [store EXCEPT ![KeyOf(p)] = Present(NewWeek(week_doc[p].week_id))]]_vars

\* C11 witness: one slot got the error of an API handler for an empty text
\* with no document stored, and a UI extract_preview with an empty text is
\* about to create the week.
C11_Witness ==
  \E p, q \in Procs :
    /\ pc[p] = "idle" /\ resp[p] = "error"
    /\ IsEmptyPreview(req[q]) /\ pc[q] = "init_week"
    /\ \A key \in Keys : ~store[key].exists
    /\ events = << >>

\* ------------------------------------------------------------------------
\* current_week_id and the week start on a range of dates
\* ------------------------------------------------------------------------

\* number of consecutive local dates after WeekFirstDay
MaxWeekDays == 760

\* 2024-12-20; the range ends in January 2027 and holds the year ends of
\* 2025-W01, 2026-W01 and 2026-W53
WeekFirstDay == ymd2ord(2024, 12, 20)

WeekDays == WeekFirstDay..(WeekFirstDay + MaxWeekDays)

InitWeek ==
  /\ store = [key \in Keys |-> Absent]
  /\ events = << >>
  /\ today \in WeekDays
  /\ pc = [p \in Procs |-> "idle"]
  /\ req = [p \in Procs |-> NoRequest]
  /\ week_doc = [p \in Procs |-> NoData]
  /\ new_tasks = [p \in Procs |-> EmptyList]
  /\ updated = [p \in Procs |-> None]
  /\ resp = [p \in Procs |-> "none"]
  /\ FnIdle

\* current_week_id() on the local date today, kept as the week of an empty plan
ComputeWeekId ==
  /\ exp_input[1] = << >>
  /\ exp_input' = <<week_id_of(today), EmptyList>>
  /\ UNCHANGED <<store, events, today, pc, req, week_doc, new_tasks, updated, resp,
                 oracle_text, parse_result, exp_result>>

\* weekly_plan_to_by_date of that week, whose first date is the week start
ResolveWeek == exp_input[1] # << >> /\ ExpandWeek

NextWeek == ComputeWeekId \/ ResolveWeek

SpecWeek == InitWeek /\ [][NextWeek]_vars

\* the week number of the ISO week with Monday mon: its Thursday lies in the
\* ISO year, and week 1 holds the year's first Thursday
ThursdayWeek(mon) ==
  LET year == ord2ymd(mon + 3)[1]
  IN  <<year, ((mon + 3 - ymd2ord(year, 1, 1)) \div 7) + 1>>

\* C12: for every date d the week id is "<iso_year>-W<iso_week, 2 digits>",
\* the same for all seven dates Monday..Sunday of d's ISO week, and the week
\* start resolved from the id is the Monday of that week (2026-02-20 gives
\* 2026-W08 starting 2026-02-16; 2025-12-29..2026-01-04 all give 2026-W01).
C12_WeekIdRoundTrip ==
  exp_input[1] # << >> =>
    LET week_id == exp_input[1]
        mon == MondayOf(today)
        yw == ThursdayWeek(mon)
    IN  /\ week_id = IntToDigits(yw[1]) \o <<"-", "W">>
                       \o (IF yw[2] < 10 THEN <<"0">> ELSE << >>) \o IntToDigits(yw[2])
        /\ \A i \in 0..6 : week_id_of(mon + i) = week_id
        /\ today = ymd2ord(2026, 2, 20) => week_id = <<"2", "0", "2", "6", "-", "W", "0", "8">>
        /\ today \in ymd2ord(2025, 12, 29)..ymd2ord(2026, 1, 4) => week_id = <<"2", "0", "2", "6", "-", "W", "0", "1">>
        /\ exp_result.done =>
             /\ exp_result.ok
             /\ Len(exp_result.val[1]) = 7
             /\ exp_result.val[1][1].date = isoformat(mon)
             /\ exp_result.val[1][7].date = isoformat(mon + 6)
             /\ today = ymd2ord(2026, 2, 20) => exp_result.val[1][1].date = <<"2", "0", "2", "6", "-", "0", "2", "-", "1", "6">>

\* C12 witness: 2026-01-01, a Thursday, got the week id 2026-W01, which
\* resolved to the week start 2025-12-29.
C12_Witness ==
  /\ today = ymd2ord(2026, 1, 1)
  /\ exp_input[1] = <<"2", "0", "2", "6", "-", "W", "0", "1">>
  /\ exp_result.done
  /\ exp_result.val[1][1].date = <<"2", "0", "2", "5", "-", "1", "2", "-", "2", "9">>

\* ------------------------------------------------------------------------
\* Properties of get_or_init_week
\* ------------------------------------------------------------------------

\* slot p takes its ref.get step of get_or_init_week
Gets(p) == pc[p] \in {"get_week", "view_get"} /\ pc'[p] # pc[p]

\* the key of the current week
CurrentKey == week_doc_ref(DEFAULT_USER_ID, current_week_id)

\* no stored document is removed
NeverRemoved == \A key \in Keys : store[key].exists => store'[key].exists

\* C13 as stated: in every interleaving the version-0 document of a key is
\* written at most once and only where no document is stored, a load that
\* finds a document leaves the store unchanged, and no document is removed.
C13_InitWritesOnlyMissing ==
  [][/\ \A p \in Procs :
          /\ Inits(p) => ~store[KeyOf(p)].exists
          /\ Gets(p) => store' = store
     /\ NeverRemoved]_vars

\* C13 amended: the lookup leaves the store unchanged; when it finds the
\* document the handler goes on with it and writes no initial document; when
\* it finds none, the version-0 document with no tasks and no plan is set in
\* a second store call, under the key looked up, whatever is stored there by
\* then; no document is removed.
C13_InitFollowsMissingGet ==
  [][/\ \A p \in Procs :
          /\ Gets(p) =>
               /\ store' = store
               /\ IF store[CurrentKey].exists
                  THEN /\ pc'[p] \notin {"init_week", "view_init"}
                       /\ pc'[p] # "idle" => week_doc'[p] = store[CurrentKey].data
                  ELSE /\ pc'[p] \in {"init_week", "view_init"}
                       /\ week_doc'[p] = NewWeek(current_week_id)
          /\ Inits(p) =>
               store' = [store EXCEPT ![KeyOf(p)] = Present(NewWeek(week_doc[p].week_id))]
     /\ NeverRemoved]_vars

\* C13 witness: a merge loaded the version-1 document another merge had
\* committed, and the store still holds it.
C13_Witness ==
  \E p \in Procs :
    /\ pc[p] = "schedule"
    /\ week_doc[p].version = 1
    /\ store[KeyOf(p)] = Present(week_doc[p])
    /\ Len(events) = 1

\* ------------------------------------------------------------------------
\* Order of the oracle calls and the writes of a merge
\* ------------------------------------------------------------------------

\* the scheduling call of slot p has returned an answer that was parsed to a
\* JSON object, not to an error value of safe_parse_json
SchedulingSucceeded(p) ==
  /\ isinstance_dict(updated[p])
  /\ updated[p] \notin ScheduleParseErrors

\* C14: a merge takes its save_week step and its log_event step only when its
\* scheduling oracle call has succeeded (the claim asks the same of every
\* store write, the lazy creation of the week included, and of the extraction
\* call), so that an operation whose oracle call failed has written nothing.
C14_NoWriteBeforeOraclesSucceed ==
  [][\A p \in Procs : (Saves(p) \/ Logs(p)) => SchedulingSucceeded(p)]_vars

\* ------------------------------------------------------------------------
\* Week documents while the local date moves on
\* ------------------------------------------------------------------------

\* every stored document lies under the key of its own user_id and week_id
KeyMatchesWeek ==
  \A key \in Keys :
    store[key].exists =>
      key = week_doc_ref(store[key].data.user_id, store[key].data.week_id)

\* C15: a stored document's week_id never changes and is the week of its
\* key; a handler's week_doc is of the week that was current at its load and
\* keeps that week_id; save_week writes the document of that week only, also
\* when the current week is another one by then.
C15_WeekIdFixed ==
  [][/\ KeyMatchesWeek'
     /\ \A key \in Keys :
          store[key].exists => store'[key].data.week_id = store[key].data.week_id
     /\ \A p \in Procs :
          /\ (Gets(p) /\ pc'[p] # "idle") => week_doc'[p].week_id = current_week_id
          /\ (pc[p] \notin {"idle", "get_week", "view_get", "extract"} /\ pc'[p] # "idle") =>
               week_doc'[p].week_id = week_doc[p].week_id
          /\ Saves(p) =>
               /\ store'[KeyOf(p)].data.week_id = week_doc[p].week_id
               /\ \A key \in Keys \ {KeyOf(p)} : store'[key] = store[key]]_vars

\* C15 witness: on the first day of the next week a merge that loaded the old
\* week has saved: the old week's document is at version 1 and the new week's
\* document is as it was created.
C15_Witness ==
  \E p \in Procs :
    /\ today = FirstDay + 1
    /\ pc[p] = "log"
    /\ week_doc[p].week_id = WeekIdOfDay[FirstDay]
    /\ week_doc[p].week_id # current_week_id
    /\ store[KeyOf(p)].data.version = 1
    /\ store[CurrentKey] = Present(NewWeek(current_week_id))

\* ------------------------------------------------------------------------
\* Frame of the read-only and preview requests
\* ------------------------------------------------------------------------

\* GET /, GET /api/weekly/get, POST /api/extract and every UI action but
\* confirm_add
IsReadOnly(r) ==
  \/ r.handler \in {"home", "api_weekly_get", "api_extract"}
  \/ r.handler = "ui_action" /\ r.action # "confirm_add"

\* slot p takes a step of a read-only or preview request
ReadOnlyStep(p) == IsReadOnly(req[p]) /\ pc'[p] # pc[p]

\* what such a step does, but for its effect on stored documents
ReadOnlyFrame(p) ==
  /\ events' = events
  /\ pc'[p] \notin {"schedule", "save", "log"}
  /\ store' # store =>
       /\ Inits(p)
       /\ store' = [store EXCEPT ![KeyOf(p)] = Present(NewWeek(week_doc[p].week_id))]

\* C16 as stated: the read-only and preview requests leave the event log and
\* every document already stored unchanged; their only store effect is the
\* lazy creation of the week's version-0 document; they never save or log.
C16_ReadOnlyKeepsStoredWeeks ==
  [][\A p \in Procs :
       ReadOnlyStep(p) =>
         /\ ReadOnlyFrame(p)
         /\ \A key \in Keys : store[key].exists => store'[key] = store[key]]_vars

\* C16 amended: the read-only and preview requests leave the event log
\* unchanged and never schedule, save or log; their only store effect is the
\* set of the version-0 document of the week their lookup found missing,
\* which replaces whatever another request stored under that key between the
\* lookup and the set.
C16_ReadOnlyOnlyCreatesWeek ==
  [][\A p \in Procs : ReadOnlyStep(p) => ReadOnlyFrame(p)]_vars

\* C16 witness: view_week has loaded, for the second time, the version-1
\* document a merge committed, and the store and the event log are as the
\* merge left them.
C16_Witness ==
  \E p \in Procs :
    /\ req[p].handler = "ui_action" /\ req[p].action = "view_week"
    /\ pc[p] = "view_get"
    /\ week_doc[p].version = 1
    /\ store[KeyOf(p)] = Present(week_doc[p])
    /\ Len(events) = 1

====
